---- MODULE Spec2Model ----
(***************************************************************************)
(* A model of meowcoin-proxy-stratum.py: the shared TemplateState, the     *)
(* history queue of old states, the Stratum session handlers and the       *)
(* stateUpdater coroutine, as one cooperative event loop.  A step of the   *)
(* model is the code that runs between two suspension points (awaits).     *)
(*                                                                         *)
(* Representation of values                                                *)
(*   Optional[T]   [some |-> FALSE] (None) or [some |-> TRUE, v |-> t]     *)
(*   bytes         a sequence of numbers (addresses, var_int, extranonce)  *)
(*   hex strings   a sequence of hex digits 0..15 (job ids, extranonce)    *)
(*   seed hash     the number n of Keccak-256 applications to bytes(32):   *)
(*                 n stands for keccak256^n(00..00), which is injective    *)
(*                 in n for every n the model reaches                      *)
(*   digests       dsha256(x) is the tagged value <<"dsha256", x>>         *)
(***************************************************************************)
EXTENDS Integers, Sequences, FiniteSets, TLC

(***************************************************************************)
(* Bounds of the model.                                                    *)
(***************************************************************************)
\* header rebuilds explored (cap on state.job_counter)
MaxJobs == 2
\* mining.subscribe calls explored in Spec (cap on state.bits_counter)
MaxSubs == 2
\* int(time.time()) when the proxy starts, the last second the clock reaches
\* between two calls of stateUpdater, and the last it reaches in a back-off
StartTime == 1000
MaxTime == 1061
MaxBackoffTime == 1300
\* ids offered to the history queue in SpecQueue
MaxId == 4
\* capacities offered to the history queue in SpecQueue
MaxCap == 3
\* SpecSubscribe: the subscribes handled before the run begins and the cap on
\* state.bits_counter, around the 1-byte and around the 2-byte range
SubscribesBeforeByte == 254
MaxSubsByte == 257
SubscribesBefore == 65534
MaxSubsWide == 65537

(***************************************************************************)
(* Program constants.                                                      *)
(***************************************************************************)
KAWPOW_EPOCH_LENGTH == 7500
\* store = 20 in main(): the capacity of the history queue
store == 20
\* state.timestamp + 60 < ts
StaleAfter == 60
\* the bytes of a SHA-256 digest, and of a block hash
DigestSize == 32
\* asyncio.sleep(300) of the except branch
BackoffSeconds == 300
\* version bytes accepted by handle_authorize
MainnetVersion == 50
TestnetVersion == 109
\* RPCError(20, ...)
InvalidAddressCode == 20
\* int.to_bytes(2, 'big') holds values below 2^16
TwoByteLimit == 65536

None == [some |-> FALSE]
Some(x) == [some |-> TRUE, v |-> x]

\* Python truthiness of an Optional[bytes]: None and b'' are both falsy.
Falsy(o) == (~o.some) \/ (o.v = <<>>)

Sessions == {"s1", "s2"}
\* the session whose notifications are observed (the sessions are alike:
\* nothing in the program tells one from another)
watched == "s1"

(***************************************************************************)
(* Codecs.                                                                 *)
(***************************************************************************)
RECURSIVE LittleEndian(_, _)
\* i.to_bytes(n, 'little')
LittleEndian(i, n) == IF n = 0 THEN <<>> ELSE <<i % 256>> \o LittleEndian(i \div 256, n - 1)

\* i <= 0xffffffff is written i \div 2^16 <= 0xffff: the numbers stay in range
var_int(i) ==
    IF i < 253 THEN LittleEndian(i, 1)
    ELSE IF i <= 65535 THEN <<253>> \o LittleEndian(i, 2)
    ELSE IF i \div 65536 <= 65535 THEN <<254>> \o LittleEndian(i, 4)
    ELSE <<255>> \o LittleEndian(i, 8)

RECURSIVE Hex(_)
\* hex(n)[2:] as a sequence of hex digits, most significant first
Hex(n) == IF n < 16 THEN <<n>> ELSE Hex(n \div 16) \o <<n % 16>>

\* bytes.hex(): two hex digits per byte
RECURSIVE BytesHex(_)
BytesHex(b) == IF b = <<>> THEN <<>> ELSE <<b[1] \div 16, b[1] % 16>> \o BytesHex(Tail(b))

\* n.to_bytes(2, 'big'); raises OverflowError from TwoByteLimit on
ToBytes2Big(n) == <<n \div 256, n % 256>>

RECURSIVE Reverse(_)
Reverse(s) == IF s = <<>> THEN <<>> ELSE Reverse(Tail(s)) \o <<s[1]>>

\* prune0x on a hex string given as [pfx, bytes]: drops a leading "0x"
prune0x(h) == [pfx |-> FALSE, bytes |-> h.bytes]

\* bytes.fromhex(prune0x(h))[::-1].hex()
ReversedHex(h) == Reverse(prune0x(h).bytes)

\* sha256(sha256(b).digest()).digest(): DigestSize bytes, kept as a term
dsha256(b) == <<"dsha256", b>>

\* one round of the while loop of merkle_from_txids
MerkleRound(txids) ==
    LET t == Append(txids, txids[Len(txids)])
    IN  [i \in 1..(Len(t) \div 2) |-> dsha256(<<t[2 * i - 1], t[2 * i]>>)]

RECURSIVE MerkleFold(_)
MerkleFold(txids) == IF Len(txids) > 1 THEN MerkleFold(MerkleRound(txids)) ELSE txids[1]

merkle_from_txids(txids) ==
    IF txids = <<>> THEN dsha256(<<>>)
    ELSE IF Len(txids) = 1 THEN txids[1]
    ELSE MerkleFold(txids)

\* sha3.keccak_256 of a seed hash
keccak_256(seed) == seed + 1

RECURSIVE SeedFromZero(_)
\* seed_hash = bytes(32); for _ in range(n): seed_hash = keccak_256(seed_hash)
SeedFromZero(n) == IF n = 0 THEN 0 ELSE keccak_256(SeedFromZero(n - 1))

(***************************************************************************)
(* Inputs: what miners and the node can send.                              *)
(***************************************************************************)
\* usernames as username.split('.'): <<address>> or <<address, worker>>
Usernames == {<<"addrA">>, <<"addrA", "rig1">>, <<"addrB">>, <<"addrT">>,
              <<"addrZ">>, <<"addrE">>, <<"addrX">>}

\* base58.b58decode_check(address): the decoded bytes (version byte first),
\* or ok = FALSE when the checksum does not match (ValueError).
\*   addrA, addrB  version 50, two different hash-160 payloads
\*   addrT         version 109 (testnet)
\*   addrZ         version 0
\*   addrE         the one byte 50 and no payload (the string "6eVR58s")
\*   addrX         a bad checksum
b58decode_check(address) ==
    CASE address = "addrA" -> [ok |-> TRUE, bytes |-> <<50, 11>>]
      [] address = "addrB" -> [ok |-> TRUE, bytes |-> <<50, 22>>]
      [] address = "addrT" -> [ok |-> TRUE, bytes |-> <<109, 11>>]
      [] address = "addrZ" -> [ok |-> TRUE, bytes |-> <<0, 11>>]
      [] address = "addrE" -> [ok |-> TRUE, bytes |-> <<50>>]
      [] OTHER -> [ok |-> FALSE, bytes |-> <<>>]

\* job ids a miner may submit: canonical ids and a zero-padded one
JobIds == {Hex(n) : n \in 0..(MaxJobs + 1)} \cup {<<0, 1>>}

\* nonce_hex / mixhash_hex: with or without "0x", or not hexadecimal at all
HexInputs == {[ok |-> TRUE, pfx |-> TRUE, bytes |-> <<1, 2>>],
              [ok |-> TRUE, pfx |-> FALSE, bytes |-> <<1, 2>>],
              [ok |-> FALSE, pfx |-> FALSE, bytes |-> <<>>]}

\* what the node answers to submitblock; "failed" is a request that raises
SubmitOutcomes == {"null", "inconclusive", "duplicate", "duplicate-inconclusive",
                   "inconclusive-not-best-prevblk", "other", "error", "failed"}

\* what the node answers to getmininginfo
MiningInfoOutcomes == {"ok", "error", "failed"}

\* int(hashrate, 16)
Hashrates == {0, 5}

(***************************************************************************)
(* State.                                                                  *)
(***************************************************************************)
VARIABLES
    testnet,        \* StratumSession._testnet (args.testnet)
    drop_after,     \* the capacity handed to add_old_state_to_queue
    state,          \* the TemplateState instance (its instance attributes)
    new_sessions,   \* TemplateState.new_sessions (one set, shared by all copies)
    all_sessions,   \* TemplateState.all_sessions
    old_states,     \* historical_states: [ids |-> queue[0], snaps |-> queue[1]]
    hashratedict,   \* worker -> hashrate
    conn,           \* each session's connection: "none", "open", "lost"
    task,           \* each session's handler in flight (suspended at an await)
    upd,            \* the updateState task: where stateUpdater is suspended
    now,            \* int(time.time())
    \* what has been observed of the run
    last_reply,     \* the last response given to a request
    sent,           \* the last notification the watched session was sent
    notified,       \* the job counter of its last mining.notify
    got,            \* the mining notifications it was sent for its latest job
    first_auth,     \* the payload of the first authorize that returned true
    last_sub        \* the number of mining.subscribe requests handled

vars == <<testnet, drop_after, state, new_sessions, all_sessions, old_states,
          hashratedict, conn, task, upd, now, last_reply, sent,
          notified, got, first_auth, last_sub>>

\* class TemplateState: the attribute defaults
TemplateState ==
    [height |-> -1, timestamp |-> -1, pub_h160 |-> None, bits |-> None,
     target |-> None, headerHash |-> None, version |-> -1, prevHash |-> None,
     externalTxs |-> <<>>, seedHash |-> None, header |-> None,
     coinbase_tx |-> None, coinbase_txid |-> None, current_commitment |-> None,
     job_counter |-> 0, bits_counter |-> 0]

Idle == [pc |-> "idle"]

\* the updateState task between two calls of stateUpdater (asyncio.sleep(0.1))
UpdInit == [pc |-> "sleep", rebuilt |-> FALSE, which |-> "", loop |-> {},
            seen |-> {}, session |-> "", target_hex |-> <<>>, bits_hex |-> <<>>]

\* no mining notification yet
NoneGot == [job |-> -1, last |-> "", set_target |-> 0, notify |-> 0]

InitCommon ==
    /\ state = TemplateState
    /\ new_sessions = {}
    /\ all_sessions = {}
    /\ old_states = [ids |-> <<>>, snaps |-> <<>>]
    /\ hashratedict = <<>>
    /\ conn = [s \in Sessions |-> "none"]
    /\ task = [s \in Sessions |-> Idle]
    /\ upd = UpdInit
    /\ now = StartTime
    /\ last_reply = None
    /\ sent = None
    /\ notified = -1
    /\ got = NoneGot
    /\ first_auth = None
    /\ last_sub = 0

Init ==
    /\ testnet = FALSE
    /\ drop_after = store
    /\ InitCommon

(***************************************************************************)
(* Responses and notifications.                                            *)
(***************************************************************************)
Result(method, r) == Some([method |-> method, ok |-> TRUE, result |-> r])
\* the request ends with the exception the handler raised instead of a result
Error(method, exc) == Some([method |-> method, ok |-> FALSE, raised |-> exc])

\* RPCError(code, ...)
RPCError(code) == [type |-> "RPCError", code |-> code]
\* any other exception: ValueError, IndexError, AttributeError, OverflowError,
\* or the HTTP client's error
Exception(type) == [type |-> type, code |-> 0]

Notification(method, params, s) ==
    [method |-> method, params |-> params, job |-> state.job_counter,
     live |-> conn[s] = "open"]

\* session.send_notification(method, params): what it adds to the observation
Observe(s, m) ==
    IF s # watched THEN UNCHANGED <<sent, notified, got>>
    ELSE /\ sent' = Some(m)
         /\ notified' = IF m.method = "mining.notify" THEN m.job ELSE notified
         /\ got' = IF m.method = "client.show_message" THEN got
                   ELSE LET g == IF got.job = m.job THEN got
                                 ELSE [NoneGot EXCEPT !.job = m.job]
                        IN  IF m.method = "mining.set_target"
                            THEN [g EXCEPT !.set_target = @ + 1, !.last = m.method]
                            ELSE [g EXCEPT !.notify = @ + 1, !.last = m.method]

(***************************************************************************)
(* The history queue.                                                      *)
(***************************************************************************)
RECURSIVE DropOldest(_, _)
\* while len(queue[0]) > drop_after: del queue[1][queue[0].pop(0)]
DropOldest(queue, cap) ==
    IF Len(queue.ids) > cap
    THEN DropOldest([ids |-> Tail(queue.ids),
                     snaps |-> [i \in DOMAIN queue.snaps \ {Head(queue.ids)} |->
                                  queue.snaps[i]]], cap)
    ELSE queue

\* a duplicate id replaces the snapshot it names
add_old_state_overwrites(queue, st, cap) ==
    LET id == Hex(st.job_counter)
    IN  DropOldest([ids |-> IF id \in DOMAIN queue.snaps THEN queue.ids
                            ELSE Append(queue.ids, id),
                    snaps |-> [i \in DOMAIN queue.snaps \cup {id} |->
                                 IF i = id THEN st ELSE queue.snaps[i]]], cap)

add_old_state_to_queue(queue, st, cap) ==
    LET id == Hex(st.job_counter)
    IN  IF id \in DOMAIN queue.snaps THEN queue
        ELSE DropOldest([ids |-> Append(queue.ids, id),
                         snaps |-> [i \in DOMAIN queue.snaps \cup {id} |->
                                      IF i = id THEN st ELSE queue.snaps[i]]], cap)

lookup_old_state(queue, id) ==
    IF id \in DOMAIN queue.snaps THEN Some(queue.snaps[id]) ELSE None

(***************************************************************************)
(* TemplateState.build_block: the fields of the block in the order they    *)
(* are concatenated.  It raises when header or coinbase_tx is None.        *)
(***************************************************************************)
CanBuild(st) == st.header.some /\ st.coinbase_tx.some

build_block(st, nonce, mixHash) ==
    <<st.header.v, nonce, mixHash, var_int(Len(st.externalTxs) + 1),
      st.coinbase_tx.v, st.externalTxs>>

(***************************************************************************)
(* StratumSession: one per connection.                                     *)
(***************************************************************************)
Running == upd.pc # "dead"

\* StratumSession.__init__: a miner connects
Connect(s) ==
    /\ Running
    /\ conn[s] = "none"
    /\ conn' = [conn EXCEPT ![s] = "open"]
    /\ UNCHANGED <<testnet, drop_after, state, new_sessions, all_sessions,
                   old_states, hashratedict, task, upd, now, last_reply, sent,
                   notified, got, first_auth, last_sub>>

\* the session's requests are handled one at a time, while it is connected
CanHandle(s) == Running /\ conn[s] = "open" /\ task[s].pc = "idle"

\* hashratedict.pop(worker, None)
Pop(d, k) == [x \in DOMAIN d \ {k} |-> d[x]]

\* connection_lost: the handler in flight is cancelled with the connection
connection_lost(s) ==
    /\ Running
    /\ conn[s] = "open"
    /\ conn' = [conn EXCEPT ![s] = "lost"]
    /\ task' = [task EXCEPT ![s] = Idle]
    /\ hashratedict' = Pop(hashratedict, s)
    /\ new_sessions' = new_sessions \ {s}
    /\ all_sessions' = all_sessions \ {s}
    /\ UNCHANGED <<testnet, drop_after, state, old_states, upd, now, last_reply,
                   sent, notified, got, first_auth, last_sub>>

\* [None, bits_counter.to_bytes(2, 'big').hex()]
SubscribeResponse(counter) ==
    IF counter < TwoByteLimit
    THEN Result("mining.subscribe", <<None, BytesHex(ToBytes2Big(counter))>>)
    ELSE Error("mining.subscribe", Exception("OverflowError"))

handle_subscribe(s, cap) ==
    /\ CanHandle(s)
    /\ state.bits_counter < cap
    /\ new_sessions' = IF s \notin all_sessions THEN new_sessions \cup {s}
                       ELSE new_sessions
    /\ state' = [state EXCEPT !.bits_counter = @ + 1]
    /\ last_reply' = SubscribeResponse(state.bits_counter + 1)
    /\ last_sub' = last_sub + 1
    /\ UNCHANGED <<testnet, drop_after, all_sessions, old_states, hashratedict,
                   conn, task, upd, now, sent, notified, got, first_auth>>

\* the version byte handle_authorize expects
ExpectedVersion == IF testnet THEN TestnetVersion ELSE MainnetVersion

\* what handle_authorize raises for a username, if anything
AuthorizeRaises(username) ==
    LET address == username[1]
        addr_decoded == b58decode_check(address)
    IN  IF ~addr_decoded.ok THEN Some(Exception("ValueError"))
        ELSE IF addr_decoded.bytes = <<>> THEN Some(Exception("IndexError"))
        ELSE IF addr_decoded.bytes[1] # ExpectedVersion
             THEN Some(RPCError(InvalidAddressCode))
        ELSE None

\* if not self._state.pub_h160: self._state.pub_h160 = addr_decoded[1:]
SetMiner(st, payload) ==
    IF Falsy(st.pub_h160) THEN [st EXCEPT !.pub_h160 = Some(payload)] ELSE st

handle_authorize(s, username) ==
    /\ CanHandle(s)
    /\ LET raised == AuthorizeRaises(username)
           payload == Tail(b58decode_check(username[1]).bytes)
       IN  IF ~raised.some
           THEN /\ state' = SetMiner(state, payload)
                /\ last_reply' = Result("mining.authorize", TRUE)
                /\ first_auth' = IF first_auth.some THEN first_auth ELSE Some(payload)
           ELSE /\ last_reply' = Error("mining.authorize", raised.v)
                /\ UNCHANGED <<state, first_auth>>
    /\ UNCHANGED <<testnet, drop_after, new_sessions, all_sessions, old_states,
                   hashratedict, conn, task, upd, now, sent, notified, got,
                   last_sub>>

\* handle_submit without the history lookup
SubmitStateLive(job_id) == state

\* the state handle_submit builds the block from
SubmitState(job_id) ==
    IF job_id # Hex(state.job_counter)
    THEN LET old_state == lookup_old_state(old_states, job_id)
         IN  IF old_state.some THEN old_state.v ELSE state
    ELSE state

\* handle_submit up to the submitblock request
handle_submit(s, job_id, nonce_hex, mixhash_hex) ==
    /\ CanHandle(s)
    /\ LET st == SubmitState(job_id)
       IN  IF nonce_hex.ok /\ mixhash_hex.ok /\ CanBuild(st)
           THEN /\ task' = [task EXCEPT ![s] =
                      [pc |-> "submitblock", job_id |-> job_id,
                       block_hex |-> build_block(st, ReversedHex(nonce_hex),
                                                 ReversedHex(mixhash_hex))]]
                /\ UNCHANGED last_reply
           ELSE \* bytes.fromhex or build_block raises
                /\ last_reply' = Error("mining.submit",
                      IF nonce_hex.ok /\ mixhash_hex.ok
                      THEN Exception("AttributeError") ELSE Exception("ValueError"))
                /\ UNCHANGED task
    /\ UNCHANGED <<testnet, drop_after, state, new_sessions, all_sessions,
                   old_states, hashratedict, conn, upd, now, sent, notified, got,
                   first_auth, last_sub>>

\* int.from_bytes(bytes.fromhex(block_hex[76*2:80*2]), 'little')
BlockHeight(block_hex) == block_hex[1].height

\* handle_submit from the node's answer on
submit_done(s, outcome) ==
    /\ Running
    /\ conn[s] = "open"
    /\ task[s].pc = "submitblock"
    /\ task' = [task EXCEPT ![s] = Idle]
    /\ IF outcome = "failed"
       THEN /\ last_reply' = Error("mining.submit", Exception("ClientError"))
            /\ UNCHANGED <<sent, notified, got>>
       ELSE /\ Observe(s, Notification("client.show_message",
                                       <<BlockHeight(task[s].block_hex)>>, s))
            /\ last_reply' = Result("mining.submit", TRUE)
    /\ UNCHANGED <<testnet, drop_after, state, new_sessions, all_sessions,
                   old_states, hashratedict, conn, upd, now, first_auth, last_sub>>

\* hashratedict.update({worker: hashrate})
Update(d, k, x) == [y \in DOMAIN d \cup {k} |-> IF y = k THEN x ELSE d[y]]

\* totalHashrate != 0: the hashrates are not negative
TotalIsZero(d) == \A k \in DOMAIN d : d[k] = 0

\* handle_eth_submitHashrate, taken at the moment the node's answer to
\* getmininginfo arrives: before its await the handler only parses its
\* arguments, and it is cancelled there if the connection is lost
handle_eth_submitHashrate(s, hashrate, outcome) ==
    /\ CanHandle(s)
    /\ CASE outcome = "failed" ->
              /\ last_reply' = Error("eth_submitHashrate",
                                     Exception("ClientError"))
              /\ UNCHANGED <<hashratedict, sent, notified, got>>
         [] outcome = "error" ->
              /\ last_reply' = Result("eth_submitHashrate", None)
              /\ UNCHANGED <<hashratedict, sent, notified, got>>
         [] OTHER ->
              /\ hashratedict' = Update(hashratedict, s, hashrate)
              /\ last_reply' = Result("eth_submitHashrate", TRUE)
              /\ IF TotalIsZero(hashratedict')
                 THEN UNCHANGED <<sent, notified, got>>
                 ELSE Observe(s, Notification("client.show_message", <<"ttf">>, s))
    /\ UNCHANGED <<testnet, drop_after, state, new_sessions, all_sessions,
                   old_states, conn, task, upd, now, first_auth, last_sub>>

(***************************************************************************)
(* The node's getblocktemplate replies.                                    *)
(***************************************************************************)
\* heights the node reports in Spec
Heights == {0, 1}
\* heights the node reports in SpecSeed: around the epoch boundaries
EpochHeights == {0, 1, 7498, 7499, 7500, 7501, 7502, 15000}

\* json_obj['result']['transactions'] that go with a witness commitment
Transactions(witness) ==
    IF witness = <<170>> THEN <<>>
    ELSE <<[data |-> <<222, 173>>, txid |-> <<3, 4>>]>>

\* json_obj['result'] for a height and a default_witness_commitment
Template(h, witness) ==
    [version |-> 805306368, height |-> h, bits |-> <<27, 0, 255, 255>>,
     previousblockhash |-> LittleEndian(h, DigestSize),
     transactions |-> Transactions(witness),
     coinbasevalue |-> 5000, default_witness_commitment |-> witness,
     target |-> <<0, 0, 255>>, CommunityAutonomousAddress |-> "addrC",
     CommunityAutonomousValue |-> 500]

Templates(hs) == {Template(h, w) : h \in hs, w \in {<<170>>, <<187>>}}

\* the replies the node gives in Spec: two blocks, each with its commitment
NodeReplies == {Template(0, <<170>>), Template(1, <<187>>)}

\* seconds that pass between two reads of the clock by stateUpdater in Spec
Deltas == {0, StaleAfter + 1}

(***************************************************************************)
(* stateUpdater: the template, lines 336-471.                              *)
(***************************************************************************)
op_push(i) ==
    IF i < 76 THEN LittleEndian(i, 1)
    ELSE IF i <= 255 THEN <<76>> \o LittleEndian(i, 1)
    ELSE IF i <= 65535 THEN <<77>> \o LittleEndian(i, 2)
    ELSE <<78>> \o LittleEndian(i, 4)

RECURSIVE Pow2(_)
Pow2(n) == IF n = 0 THEN 1 ELSE 2 * Pow2(n - 1)

RECURSIVE BytesNeededSub1(_, _)
\* while True: if height <= 2**(7 + 8*k) - 1: break; k += 1
BytesNeededSub1(height, k) ==
    IF height <= Pow2(7 + 8 * k) - 1 THEN k ELSE BytesNeededSub1(height, k + 1)

\* lines 337-342: what every successful poll stores, rebuild or not
StoreReply(st, r) ==
    [st EXCEPT !.current_commitment = Some(r.default_witness_commitment),
               !.target = Some(r.target),
               !.bits = Some(r.bits),
               !.version = r.version,
               !.prevHash = Some(Reverse(r.previousblockhash))]

\* the seed hash when a lower height never resets it
NewSeedHashKept(st, height_int) ==
    IF st.height = -1 \/ height_int > st.height
    THEN IF ~st.seedHash.some
         THEN Some(SeedFromZero(height_int \div KAWPOW_EPOCH_LENGTH))
         ELSE IF st.height % KAWPOW_EPOCH_LENGTH = 0
              THEN Some(keccak_256(st.seedHash.v))
              ELSE st.seedHash
    ELSE st.seedHash

\* lines 359-393: the seed hash for the reply's height
NewSeedHash(st, height_int) ==
    IF st.height = -1 \/ height_int > st.height
    THEN IF ~st.seedHash.some
         THEN Some(SeedFromZero(height_int \div KAWPOW_EPOCH_LENGTH))
         ELSE IF st.height % KAWPOW_EPOCH_LENGTH = 0
              THEN Some(keccak_256(st.seedHash.v))
              ELSE st.seedHash
    ELSE IF st.height > height_int
         THEN IF (st.height % KAWPOW_EPOCH_LENGTH) - (st.height - height_int) < 0
              THEN Some(SeedFromZero(height_int \div KAWPOW_EPOCH_LENGTH))
              ELSE st.seedHash
         ELSE st.seedHash

\* line 350
NewBlock(st, r) == st.height = -1 \/ st.height # r.height

\* lines 350-396
StoreHeight(st, r) ==
    IF NewBlock(st, r)
    THEN [st EXCEPT !.seedHash = NewSeedHash(st, r.height), !.height = r.height]
    ELSE st

\* the script of a pay-to-pubkey-hash output
P2PKH(h160) == <<118, 169, 20>> \o h160 \o <<136, 172>>

\* the community address of the reply: base58.b58decode_check(...)[1:]
CommunityH160 == <<33>>

\* lines 405-446: the coinbase without marker, flag and witness
CoinbaseNoWit(st, r) ==
    LET bip34_height == LittleEndian(st.height, BytesNeededSub1(st.height, 0) + 1)
        coinbase_script == <<op_push(Len(bip34_height)), bip34_height,
                             op_push(24), "/meowcoin-proxy-stratum/">>
        vout_to_miner == P2PKH(st.pub_h160.v)
        vout_to_community == P2PKH(CommunityH160)
        witness_vout == r.default_witness_commitment
    IN  [version |-> 1,
         txin |-> coinbase_script,
         vout |-> <<<<r.coinbasevalue, op_push(Len(vout_to_miner)), vout_to_miner>>,
                    <<r.CommunityAutonomousValue, op_push(Len(vout_to_community)),
                      vout_to_community>>,
                    <<0, op_push(Len(witness_vout)), witness_vout>>>>,
         locktime |-> 0]

\* lines 431-438: the same with marker, flag and the witness stack
CoinbaseTx(st, r) == [segwit |-> TRUE, tx |-> CoinbaseNoWit(st, r)]

\* lines 451-457
Txids(coinbase_txid, txs_list) ==
    <<coinbase_txid>> \o [i \in 1..Len(txs_list) |-> Reverse(txs_list[i].txid)]

\* the header with a previous block hash one byte short
HeaderShort(st, r, merkle, ts) ==
    [version |-> r.version, prevHash |-> Tail(st.prevHash.v), merkle |-> merkle,
     timestamp |-> ts, bits |-> Reverse(r.bits), height |-> st.height]

\* lines 461-466
Header(st, r, merkle, ts) ==
    [version |-> r.version, prevHash |-> st.prevHash.v, merkle |-> merkle,
     timestamp |-> ts, bits |-> Reverse(r.bits), height |-> st.height]

\* len(state.header): the bytes of the six fields lines 461-466 concatenate
HeaderSize(header) ==
    Len(LittleEndian(header.version, 4)) + Len(header.prevHash) + DigestSize
    + Len(LittleEndian(header.timestamp, 4)) + Len(header.bits)
    + Len(LittleEndian(header.height, 4))

\* lines 405-471: the header rebuild
Rebuild(st, r, ts) ==
    LET coinbase_txid == dsha256(CoinbaseNoWit(st, r))
        merkle == merkle_from_txids(Txids(coinbase_txid, r.transactions))
        header == Header(st, r, merkle, ts)
    IN  [st EXCEPT !.coinbase_tx = Some(CoinbaseTx(st, r)),
                   !.coinbase_txid = Some(coinbase_txid),
                   !.externalTxs = [i \in 1..Len(r.transactions) |->
                                      r.transactions[i].data],
                   !.header = Some(header),
                   !.headerHash = Some(Reverse(dsha256(header))),
                   !.timestamp = ts,
                   !.job_counter = @ + 1]

\* the triggers when a header of StaleAfter seconds counts as stale
TriggeredAtStaleAfter(st, r, ts) ==
    \/ NewBlock(st, r)
    \/ Some(r.default_witness_commitment) # st.current_commitment
    \/ st.timestamp + StaleAfter <= ts

\* line 399
Triggered(st, r, ts) ==
    \/ NewBlock(st, r)
    \/ Some(r.default_witness_commitment) # st.current_commitment
    \/ st.timestamp + StaleAfter < ts

\* lines 336-472: the template state after a successful poll
Polled(st, r, ts) ==
    IF Triggered(st, r, ts)
    THEN Rebuild(StoreHeight(StoreReply(st, r), r), r, ts)
    ELSE StoreReply(st, r)

\* lines 351 and 403: deepcopy(state), taken after lines 337-342
OriginalState(st, r) == StoreReply(st, r)

(***************************************************************************)
(* stateUpdater: the broadcast, lines 478-487.                             *)
(*                                                                         *)
(* "for session in <set>" holds an iterator: the set as it was when the    *)
(* loop began (loop) and the sessions yielded so far (seen).  next()       *)
(* raises RuntimeError when the set's size differs from the size it began  *)
(* with.  When a discard and an add have left the size the same, the       *)
(* session added may be yielded or skipped (its place in the hash table    *)
(* decides); the remaining sessions of the original set are all yielded.   *)
(***************************************************************************)
IterNext(X, loop, seen) ==
    IF Cardinality(X) # Cardinality(loop)
    THEN {[t |-> "raise", s |-> ""]}
    ELSE {[t |-> "yield", s |-> e] : e \in X \ seen}
         \cup (IF (X \cap loop) \ seen = {} THEN {[t |-> "stop", s |-> ""]} ELSE {})

\* the except branch: log, then await asyncio.sleep(300)
Caught(u) == [u EXCEPT !.pc = "backoff", !.which = "", !.loop = {}, !.seen = {},
                       !.session = ""]

\* stateUpdater returns; updateState awaits asyncio.sleep(0.1)
Returned(u) == [u EXCEPT !.pc = "sleep", !.which = "", !.loop = {}, !.seen = {},
                         !.session = ""]

\* the loop body without its mining.set_target
SuspendedAtNotify(u, which, loop, seen, e) ==
    [u EXCEPT !.pc = "notify", !.which = which, !.loop = loop,
              !.seen = seen \cup {e}, !.session = e]

\* suspended in the first send_notification of a loop body
Suspended(u, which, loop, seen, e) ==
    [u EXCEPT !.pc = "set_target", !.which = which, !.loop = loop,
              !.seen = seen \cup {e}, !.session = e]

\* lines 482-487: one next() of "for session in state.new_sessions"
NewSessionsNext(u, loop, seen) ==
    \E o \in IterNext(new_sessions, loop, seen) :
        CASE o.t = "raise" ->
               /\ upd' = Caught(u)
               /\ UNCHANGED <<new_sessions, all_sessions>>
          [] o.t = "yield" ->
               /\ all_sessions' = all_sessions \cup {o.s}
               /\ upd' = Suspended(u, "new_sessions", loop, seen, o.s)
               /\ UNCHANGED new_sessions
          [] OTHER ->
               /\ new_sessions' = {}
               /\ upd' = Returned(u)
               /\ UNCHANGED all_sessions

\* lines 478-480: one next() of "for session in state.all_sessions"
AllSessionsNext(u, loop, seen) ==
    \E o \in IterNext(all_sessions, loop, seen) :
        CASE o.t = "raise" ->
               /\ upd' = Caught(u)
               /\ UNCHANGED <<new_sessions, all_sessions>>
          [] o.t = "yield" ->
               /\ upd' = Suspended(u, "all_sessions", loop, seen, o.s)
               /\ UNCHANGED <<new_sessions, all_sessions>>
          [] OTHER -> NewSessionsNext(u, new_sessions, {})

\* stateUpdater without its first two lines: it polls whoever has authorized
stateUpdater_polls ==
    /\ upd.pc = "sleep"
    /\ \E d \in Deltas :
          /\ d = 0 \/ now + d <= MaxTime
          /\ now' = now + d
    /\ upd' = [upd EXCEPT !.pc = "getblocktemplate", !.rebuilt = FALSE]
    /\ UNCHANGED <<testnet, drop_after, state, new_sessions, all_sessions,
                   old_states, hashratedict, conn, task, last_reply, sent, notified,
                   got, first_auth, last_sub>>

\* updateState: asyncio.sleep(0.1) ends and stateUpdater is called; it
\* returns at once while no miner has authorized, else posts getblocktemplate
stateUpdater_call ==
    /\ upd.pc = "sleep"
    /\ \E d \in Deltas :
          /\ d = 0 \/ now + d <= MaxTime
          /\ now' = now + d
    /\ upd' = IF Falsy(state.pub_h160) THEN upd
              ELSE [upd EXCEPT !.pc = "getblocktemplate", !.rebuilt = FALSE]
    /\ UNCHANGED <<testnet, drop_after, state, new_sessions, all_sessions,
                   old_states, hashratedict, conn, task, last_reply, sent, notified,
                   got, first_auth, last_sub>>

\* session.post raises (line 317 is outside the try): the exception leaves
\* stateUpdater and updateState, and the TaskGroup ends the process
request_failed ==
    /\ upd.pc = "getblocktemplate"
    /\ upd' = [upd EXCEPT !.pc = "dead"]
    /\ UNCHANGED <<testnet, drop_after, state, new_sessions, all_sessions,
                   old_states, hashratedict, conn, task, now, last_reply, sent,
                   notified, got, first_auth, last_sub>>

\* resp.json() raises, the reply has an error, or a key is missing
reply_rejected ==
    /\ upd.pc = "getblocktemplate"
    /\ upd' = Caught(upd)
    /\ UNCHANGED <<testnet, drop_after, state, new_sessions, all_sessions,
                   old_states, hashratedict, conn, task, now, last_reply, sent,
                   notified, got, first_auth, last_sub>>

\* lines 323-487 up to the first await of the broadcast
stateUpdater_reply(r) ==
    /\ upd.pc = "getblocktemplate"
    /\ state.job_counter < MaxJobs
    /\ state' = Polled(state, r, now)
    /\ LET rebuilt == Triggered(state, r, now)
           u == [upd EXCEPT !.rebuilt = rebuilt, !.target_hex = r.target,
                            !.bits_hex = r.bits]
       IN  IF rebuilt
           THEN /\ old_states' = add_old_state_to_queue(old_states,
                                     OriginalState(state, r), drop_after)
                /\ AllSessionsNext(u, all_sessions, {})
           ELSE /\ UNCHANGED old_states
                /\ NewSessionsNext(u, new_sessions, {})
    /\ UNCHANGED <<testnet, drop_after, hashratedict, conn, task, now, last_reply,
                   sent, notified, got, first_auth, last_sub>>

\* lines 336-447: the state when the rebuild has written the coinbase
\* transaction and its id
CoinbaseWritten(st, r) ==
    LET t == StoreHeight(StoreReply(st, r), r)
    IN  [t EXCEPT !.coinbase_tx = Some(CoinbaseTx(t, r)),
                  !.coinbase_txid = Some(dsha256(CoinbaseNoWit(t, r)))]

\* lines 323-455 and 489-494: the reply r, but with an entry of 'transactions'
\* that has no 'txid' or one that is not hexadecimal.  A trigger has fired
\* and the rebuild raises in the loop of lines 453-455, after it has
\* written the coinbase; the except branch sleeps.  (Without a trigger the
\* transactions are not read: the tick is that of the reply r.)
rebuild_raises(r) ==
    /\ upd.pc = "getblocktemplate"
    /\ Triggered(state, r, now)
    /\ state' = CoinbaseWritten(state, r)
    /\ upd' = Caught(upd)
    /\ UNCHANGED <<testnet, drop_after, new_sessions, all_sessions, old_states,
                   hashratedict, conn, task, now, last_reply, sent, notified, got,
                   first_auth, last_sub>>

\* await session.send_notification('mining.set_target', (target_hex,))
send_set_target ==
    /\ upd.pc = "set_target"
    /\ Observe(upd.session,
               Notification("mining.set_target", <<upd.target_hex>>, upd.session))
    /\ upd' = [upd EXCEPT !.pc = "notify"]
    /\ UNCHANGED <<testnet, drop_after, state, new_sessions, all_sessions,
                   old_states, hashratedict, conn, task, now, last_reply, first_auth,
                   last_sub>>

\* the parameters of mining.notify
NotifyParams(st, target_hex, bits_hex) ==
    <<Hex(st.job_counter), st.headerHash, st.seedHash, target_hex, TRUE,
      st.height, bits_hex>>

\* await session.send_notification('mining.notify', ...), then the loop's next()
send_notify ==
    /\ upd.pc = "notify"
    /\ Observe(upd.session,
               Notification("mining.notify",
                            NotifyParams(state, upd.target_hex, upd.bits_hex),
                            upd.session))
    /\ IF upd.which = "all_sessions"
       THEN AllSessionsNext(upd, upd.loop, upd.seen)
       ELSE NewSessionsNext(upd, upd.loop, upd.seen)
    /\ UNCHANGED <<testnet, drop_after, state, old_states, hashratedict, conn,
                   task, now, last_reply, first_auth, last_sub>>

\* asyncio.sleep(300) ends and stateUpdater returns
backoff_done ==
    /\ upd.pc = "backoff"
    /\ now + BackoffSeconds <= MaxBackoffTime
    /\ now' = now + BackoffSeconds
    /\ upd' = Returned(upd)
    /\ UNCHANGED <<testnet, drop_after, state, new_sessions, all_sessions,
                   old_states, hashratedict, conn, task, last_reply, sent, notified,
                   got, first_auth, last_sub>>

\* int(time.time()) moves on by StaleAfter seconds before the reply comes:
\* the clock is read on line 336 only, so the time that passes during the
\* broadcast shows in the next tick
clock_advances ==
    /\ upd.pc \in {"sleep", "getblocktemplate"}
    /\ now + StaleAfter <= MaxTime
    /\ now' = now + StaleAfter
    /\ UNCHANGED <<testnet, drop_after, state, new_sessions, all_sessions,
                   old_states, hashratedict, conn, task, upd, last_reply, sent,
                   notified, got, first_auth, last_sub>>

(***************************************************************************)
(* The proxy: the sessions and the updateState task on one event loop.     *)
(***************************************************************************)
\* connections come and go
Connections ==
    \/ \E s \in Sessions : Connect(s)
    \/ \E s \in Sessions : connection_lost(s)

\* the updateState task, from the poll to the end of the tick
Refresher(replies) ==
    \/ stateUpdater_call
    \/ request_failed
    \/ reply_rejected
    \/ \E r \in replies : stateUpdater_reply(r)
    \/ backoff_done

\* the broadcast of a tick
Broadcast ==
    \/ send_set_target
    \/ send_notify

\* the watched session submits shares
Submits ==
    \/ \E j \in JobIds, n \in HexInputs, m \in HexInputs :
          handle_submit(watched, j, n, m)
    \/ \E o \in SubmitOutcomes : submit_done(watched, o)

Next ==
    \/ Connections
    \/ \E s \in Sessions : handle_subscribe(s, MaxSubs)
    \/ \E s \in Sessions, u \in Usernames : handle_authorize(s, u)
    \/ Submits
    \/ \E s \in Sessions, h \in Hashrates, o \in MiningInfoOutcomes :
          handle_eth_submitHashrate(s, h, o)
    \/ clock_advances
    \/ Refresher(NodeReplies)
    \/ \E r \in NodeReplies : rebuild_raises(r)
    \/ Broadcast

\* the whole proxy
Spec == Init /\ [][Next]_vars

(***************************************************************************)
(* SpecAuth: miners connect, authorize and disconnect, on mainnet or on    *)
(* testnet.  handle_authorize is the only code that writes pub_h160.       *)
(***************************************************************************)
InitAuth ==
    /\ testnet \in BOOLEAN
    /\ drop_after = store
    /\ InitCommon

NextAuth ==
    \/ Connections
    \/ \E s \in Sessions, u \in Usernames : handle_authorize(s, u)

SpecAuth == InitAuth /\ [][NextAuth]_vars

\* C1: in every reachable state pub_h160 (the spec's miner_h160) is absent or
\* is the payload of the first address whose mining.authorize returned true;
\* no later authorize changes it
C1_MinerWriteOnce ==
    first_auth.some => state.pub_h160 = first_auth

(***************************************************************************)
(* SpecSubscribe: miners connect, subscribe and disconnect.  The proxy has *)
(* handled no subscribe yet, or a number of them from sessions that have   *)
(* disconnected since (connection_lost leaves bits_counter as it is and    *)
(* takes the session out of new_sessions).                                 *)
(***************************************************************************)
InitSubscribe ==
    /\ testnet = FALSE
    /\ drop_after = store
    /\ new_sessions = {}
    /\ all_sessions = {}
    /\ old_states = [ids |-> <<>>, snaps |-> <<>>]
    /\ hashratedict = <<>>
    /\ conn = [s \in Sessions |-> "none"]
    /\ task = [s \in Sessions |-> Idle]
    /\ upd = UpdInit
    /\ now = StartTime
    /\ last_reply = None
    /\ sent = None
    /\ notified = -1
    /\ got = NoneGot
    /\ first_auth = None
    /\ \E n \in {0, SubscribesBeforeByte, SubscribesBefore} :
          /\ state = [TemplateState EXCEPT !.bits_counter = n]
          /\ last_sub = n

\* the subscribes explored from each start: up to the next cap
SubscribeCap ==
    LET caps == {c \in {MaxSubs, MaxSubsByte, MaxSubsWide} : state.bits_counter <= c}
    IN  CHOOSE c \in caps : \A d \in caps : c <= d

NextSubscribe ==
    \/ Connections
    \/ \E s \in Sessions : handle_subscribe(s, SubscribeCap)

SpecSubscribe == InitSubscribe /\ [][NextSubscribe]_vars

\* C9: the k-th mining.subscribe returns [null, k as two big-endian bytes in
\* hex], so that any two subscribes return distinct extranonces, and
\* bits_counter counts the subscribes (it never decreases)
C9_SubscribeReturnsKth ==
    /\ state.bits_counter = last_sub
    /\ (last_reply.some /\ last_reply.v.method = "mining.subscribe") =>
          /\ last_reply.v.ok
          /\ last_reply.v.result = <<None, BytesHex(ToBytes2Big(last_sub))>>

(***************************************************************************)
(* SpecQueue: add_old_state_to_queue on its own.  States with any job      *)
(* counter up to MaxId are offered in any order, to a queue of any         *)
(* capacity up to MaxCap.                                                  *)
(***************************************************************************)
InitQueue ==
    /\ testnet = FALSE
    /\ drop_after \in 1..MaxCap
    /\ InitCommon

\* add_old_state_to_queue(old_states, state, drop_after) for a state with the
\* job counter and the height given
QueueInsert(counter, height) ==
    /\ state' = [state EXCEPT !.job_counter = counter, !.height = height]
    /\ old_states' = add_old_state_to_queue(old_states, state', drop_after)
    /\ UNCHANGED <<testnet, drop_after, new_sessions, all_sessions, hashratedict,
                   conn, task, upd, now, last_reply, sent, notified, got,
                   first_auth, last_sub>>

NextQueue == \E counter \in 0..MaxId, height \in Heights : QueueInsert(counter, height)

SpecQueue == InitQueue /\ [][NextQueue]_vars

\* the ids of the queue's sequence
QueueIds(queue) == {queue.ids[i] : i \in DOMAIN queue.ids}

\* the last n elements of a sequence (all of it when it is shorter)
Suffix(q, n) == IF Len(q) <= n THEN q ELSE SubSeq(q, Len(q) - n + 1, Len(q))

\* the queue holds at most capacity entries, without repetition, and the id
\* sequence and the map hold the same ids
C7_QueueShape ==
    /\ Len(old_states.ids) <= drop_after
    /\ Cardinality(QueueIds(old_states)) = Len(old_states.ids)
    /\ DOMAIN old_states.snaps = QueueIds(old_states)

\* an insertion of an id already present changes nothing; any other appends
\* the id with its snapshot and keeps the newest ids, in insertion order
C7_QueueInsertion ==
    LET id == Hex(state'.job_counter)
    IN  IF id \in QueueIds(old_states)
        THEN old_states' = old_states
        ELSE /\ old_states'.ids = Suffix(Append(old_states.ids, id), drop_after)
             /\ \A i \in DOMAIN old_states'.snaps :
                   old_states'.snaps[i] = IF i = id THEN state'
                                          ELSE old_states.snaps[i]

\* C7: after any sequence of insertions the history queue holds at most
\* capacity entries, its id sequence and its map have the same ids, inserting
\* an id already present changes nothing, and the ids dropped when the
\* capacity is exceeded are the oldest-inserted ones, in insertion order
C7_HistoryQueue == []C7_QueueShape /\ [][C7_QueueInsertion]_vars

\* the queue is full, its ids are not in numeric order, and the state
\* offered last has the id of an entry that holds another snapshot: it was
\* offered as a duplicate
C7_DuplicateOffered ==
    /\ drop_after = MaxCap
    /\ Len(old_states.ids) = drop_after
    /\ old_states.ids[1] = Hex(MaxId)
    /\ Hex(state.job_counter) \in QueueIds(old_states)
    /\ old_states.snaps[Hex(state.job_counter)] # state

(***************************************************************************)
(* SpecSeed: one miner authorizes and the refresher polls a node whose     *)
(* heights lie around the epoch boundaries; nobody subscribes.             *)
(***************************************************************************)
NextOfSeed ==
    \/ Connect(watched)
    \/ handle_authorize(watched, <<"addrA">>)
    \/ Refresher(Templates(EpochHeights))

SpecSeed == Init /\ [][NextOfSeed]_vars

\* C8: after every completed tick of the refresher, seedHash is Keccak-256
\* applied (height // 7500) times to 32 zero bytes, for the height the tick
\* left in the template
C8_SeedOfEpoch ==
    (upd.pc = "sleep" /\ state.height >= 0) =>
        state.seedHash = Some(SeedFromZero(state.height \div KAWPOW_EPOCH_LENGTH))

(***************************************************************************)
(* SpecSubmit: one miner connects, subscribes, authorizes and submits      *)
(* shares for current, old and unknown job ids while the refresher polls   *)
(* and broadcasts.                                                         *)
(***************************************************************************)
NextSubmit ==
    \/ Connect(watched)
    \/ connection_lost(watched)
    \/ handle_subscribe(watched, MaxSubs)
    \/ handle_authorize(watched, <<"addrA">>)
    \/ Submits
    \/ Refresher(NodeReplies)
    \/ Broadcast

SpecSubmit == Init /\ [][NextSubmit]_vars

\* C5: every mining.submit request completes with the result true
C5_SubmitReturnsTrue ==
    (last_reply.some /\ last_reply.v.method = "mining.submit") =>
        (last_reply.v.ok /\ last_reply.v.result = TRUE)

\* the state the spec names for a job id: the live state when the id is that
\* of the live job counter, else the snapshot the history queue holds under
\* the id, else the live state
C6_Chosen(job_id) ==
    IF job_id = Hex(state.job_counter) THEN state
    ELSE IF \E i \in DOMAIN old_states.ids : old_states.ids[i] = job_id
         THEN old_states.snaps[job_id]
         ELSE state

\* a mining.submit has built its block in this step
C6_Built == task[watched].pc = "idle" /\ task'[watched].pc = "submitblock"

\* C6: the block a mining.submit builds takes its header, its coinbase
\* transaction and its other transactions from the one state chosen for the
\* job id: the live state, the snapshot of that id, or the live state
C6_BlockFromChosenState ==
    [][C6_Built =>
         LET chosen == C6_Chosen(task'[watched].job_id)
             block_hex == task'[watched].block_hex
         IN  /\ chosen.header = Some(block_hex[1])
             /\ chosen.coinbase_tx = Some(block_hex[5])
             /\ chosen.externalTxs = block_hex[6]]_vars

\* a block built for an old job id is in flight: it has the header of the
\* snapshot, which is not the live header
C6_OldJobInFlight ==
    /\ task[watched].pc = "submitblock"
    /\ task[watched].job_id # Hex(state.job_counter)
    /\ task[watched].job_id \in DOMAIN old_states.snaps
    /\ task[watched].block_hex[1] = old_states.snaps[task[watched].job_id].header.v
    /\ task[watched].block_hex[1] # state.header.v

(***************************************************************************)
(* SpecNotify: two miners connect, subscribe, authorize and disconnect,    *)
(* the watched one reports its hashrate, and the refresher polls and       *)
(* broadcasts.                                                             *)
(***************************************************************************)
NextNotify ==
    \/ Connections
    \/ \E s \in Sessions : handle_subscribe(s, MaxSubs)
    \/ \E s \in Sessions : handle_authorize(s, <<"addrA">>)
    \/ \E h \in Hashrates, o \in MiningInfoOutcomes :
          handle_eth_submitHashrate(watched, h, o)
    \/ Refresher(NodeReplies)
    \/ Broadcast

SpecNotify == Init /\ [][NextNotify]_vars

\* a mining.notify is sent to the watched session in this step
NotifySent == got' # got /\ got'.last = "mining.notify"

\* C2: each mining.notify a session is sent carries the job id
\* hex(job_counter) as of the moment it is sent, and a job counter above that
\* of the mining.notify the session was sent before (no job id twice)
C2_JobIdsIncrease ==
    [][NotifySent =>
         /\ sent'.v.params[1] = Hex(state.job_counter)
         /\ sent'.v.job > notified]_vars

\* C3: when a tick that rebuilt the header is over, every session in
\* all_sessions has been sent exactly one mining.set_target and exactly one
\* mining.notify for the new job counter, the set_target first
C3_OneOfEachPerRebuild ==
    (upd.pc = "sleep" /\ upd.rebuilt /\ watched \in all_sessions) =>
        got = [job |-> state.job_counter, last |-> "mining.notify",
               set_target |-> 1, notify |-> 1]

\* C4 as the spec states it: the notification a session was sent just before
\* a mining.notify is a mining.set_target for the same job
C4_NotifyRightAfterSetTarget ==
    [][NotifySent =>
         /\ sent.some
         /\ sent.v.method = "mining.set_target"
         /\ sent.v.job = sent'.v.job]_vars

\* C4: of the mining.set_target and mining.notify notifications a session is
\* sent, the one before a mining.notify is a mining.set_target for the same
\* job (a client.show_message may come between the two), and no
\* mining.notify comes before the first mining.set_target
C4_NotifyFollowsSetTarget ==
    [][NotifySent =>
         /\ got.last = "mining.set_target"
         /\ got.job = sent'.v.job]_vars

\* the watched session was sent the mining.set_target of the live job, then
\* a client.show_message, and its mining.notify is the next to be sent
C4_MessageInBetween ==
    /\ upd.pc = "notify"
    /\ upd.session = watched
    /\ got.last = "mining.set_target"
    /\ got.job = state.job_counter
    /\ sent.some
    /\ sent.v.method = "client.show_message"

\* C10: a session whose connection is lost is in neither new_sessions nor
\* all_sessions and has no entry in hashratedict, and no mining.set_target
\* or mining.notify is sent to it after the loss
C10_LostSessionIsGone ==
    /\ \A s \in Sessions :
          conn[s] = "lost" =>
              /\ s \notin new_sessions
              /\ s \notin all_sessions
              /\ s \notin DOMAIN hashratedict
    /\ (sent.some /\ sent.v.method \in {"mining.set_target", "mining.notify"}) =>
          sent.v.live

\* C11: a poll of getblocktemplate that fails (the request fails, the reply
\* has an error, or it is malformed) puts the refresher to sleep for 300 s,
\* after which it returns to polling; no failure ends the refresher
C11_FailedPollBacksOff ==
    [][/\ (upd.pc = "getblocktemplate" /\ upd'.pc # "getblocktemplate") =>
              upd'.pc \in {"backoff", "set_target", "sleep"}
       /\ (upd.pc = "backoff" /\ upd'.pc # "backoff") =>
              (upd'.pc = "sleep" /\ now' = now + BackoffSeconds)]_vars

\* the address of a username fails Base58Check or has a version byte other
\* than the expected one
C12_Refused(username) ==
    LET addr_decoded == b58decode_check(username[1])
    IN  (~addr_decoded.ok) \/ (addr_decoded.bytes[1] # ExpectedVersion)

\* C12: a mining.authorize whose address has a bad checksum or a version
\* byte other than the expected one is answered with RPC error code 20,
\* leaves pub_h160 and the rest of the template state as they were, and
\* leaves the connection open
C12_RefusedWithCode20 ==
    [][\A s \in Sessions, u \in Usernames :
          (handle_authorize(s, u) /\ C12_Refused(u)) =>
              /\ last_reply' = Error("mining.authorize", RPCError(20))
              /\ state' = state
              /\ conn' = conn]_vars

\* a refresher tick that polled the node ends in this step: stateUpdater
\* returns to updateState
C13_TickEnds == upd.pc \notin {"sleep", "dead"} /\ upd'.pc = "sleep"

\* C13: when a tick ends, every session it found in new_sessions is in
\* all_sessions and has been sent the mining.set_target and the
\* mining.notify of the live job, and new_sessions is empty
C13_NewSessionsServed ==
    [][C13_TickEnds =>
         /\ new_sessions' = {}
         /\ new_sessions \subseteq all_sessions'
         /\ watched \in new_sessions =>
               /\ got'.job = state.job_counter
               /\ got'.set_target >= 1
               /\ got'.notify >= 1]_vars

\* the KAWPOW epoch of a height
EpochOf(height) == height \div KAWPOW_EPOCH_LENGTH

\* C14: a tick that moves the template from a height to another height of
\* the same KAWPOW epoch (the first height of an epoch included) leaves
\* seedHash as it was
C14_SeedFixedInEpoch ==
    [][(/\ state.height >= 0
        /\ state'.height # state.height
        /\ EpochOf(state'.height) = EpochOf(state.height)) =>
           state'.seedHash = state.seedHash]_vars

\* the reply's height is below the stored one: a reorganization
C15_Reorg == state.height > state'.height /\ state'.height >= 0

\* C15: a tick whose reply has a height below the stored one recomputes
\* seedHash from 32 zero bytes, as Keccak-256 applied (new height // 7500)
\* times, exactly when stored % 7500 - (stored - new) < 0, which is when the
\* new height is in an earlier epoch than the stored one; otherwise it
\* leaves seedHash as it was
C15_ReorgSeed ==
    [][C15_Reorg =>
         LET stored == state.height
             new == state'.height
             back == (stored % KAWPOW_EPOCH_LENGTH) - (stored - new) < 0
         IN  /\ back <=> (EpochOf(new) < EpochOf(stored))
             /\ state'.seedHash =
                   IF back THEN Some(SeedFromZero(new \div KAWPOW_EPOCH_LENGTH))
                   ELSE state.seedHash]_vars

\* the template went from height 7502 back to 7498, and seedHash from one
\* Keccak-256 of the zero block to the zero block itself
C15_BackAnEpoch ==
    /\ state.height = 7498
    /\ state.seedHash = Some(SeedFromZero(0))
    /\ \E id \in DOMAIN old_states.snaps :
          /\ old_states.snaps[id].height = 7502
          /\ old_states.snaps[id].seedHash = Some(SeedFromZero(1))
          /\ old_states.snaps[id].job_counter + 1 = state.job_counter

\* the template fields of a state
C16_Fields(st) ==
    [f \in {"height", "version", "bits", "target", "prevHash",
            "current_commitment", "timestamp", "seedHash", "header",
            "headerHash", "coinbase_tx", "coinbase_txid", "externalTxs",
            "job_counter"} |-> st[f]]

\* C16: the snapshot the history queue takes in under a job id equals, in
\* every template field, the live state as it was before the tick that ends
\* that job, and a snapshot the queue holds is never altered
C16_SnapshotOfJob ==
    [][\A id \in DOMAIN old_states'.snaps :
          C16_Fields(old_states'.snaps[id]) =
              C16_Fields(IF id \in DOMAIN old_states.snaps
                         THEN old_states.snaps[id] ELSE state)]_vars

(***************************************************************************)
(* SpecTrigger: miners connect, subscribe, authorize and disconnect while  *)
(* the refresher polls a node that answers with the same or another height *)
(* and the same or another witness commitment, StaleAfter seconds or more  *)
(* after the last rebuild, or less.                                        *)
(***************************************************************************)
NextTrigger ==
    \/ Connections
    \/ \E s \in Sessions : handle_subscribe(s, MaxSubs)
    \/ handle_authorize(watched, <<"addrA">>)
    \/ clock_advances
    \/ Refresher(Templates(Heights))
    \/ Broadcast

SpecTrigger == Init /\ [][NextTrigger]_vars

\* the triggers as the spec lists them
C17_Trigger(r) ==
    \/ state.height = -1
    \/ state.height # r.height
    \/ Some(r.default_witness_commitment) # state.current_commitment
    \/ now - state.timestamp > 60

\* the step is a tick's successful reply r (the commitment, which every
\* reply leaves in the state, is compared first)
C17_Replied(r) ==
    /\ state'.current_commitment = Some(r.default_witness_commitment)
    /\ stateUpdater_reply(r)

\* the fields a header rebuild writes
C17_Built(st) ==
    <<st.header, st.headerHash, st.coinbase_tx, st.coinbase_txid,
      st.externalTxs, st.timestamp, st.job_counter>>

\* C17: a tick with a successful reply rebuilds the header if and only if a
\* trigger fires.  A rebuild increases job_counter by exactly 1 and adds one
\* snapshot, keyed by the previous job_counter; a tick without a trigger
\* leaves the header, its hash, the coinbase, the other transactions, the
\* timestamp, job_counter and the history queue as they were, and sends
\* nothing to a session that is in all_sessions already
C17_RebuildIffTriggered ==
    [][/\ \A r \in Templates(Heights) :
             C17_Replied(r) =>
                 IF C17_Trigger(r)
                 THEN /\ upd'.rebuilt
                      /\ state'.job_counter = state.job_counter + 1
                      /\ state'.timestamp = now
                      /\ state'.header.some
                      /\ state'.header.v.timestamp = now
                      /\ (DOMAIN old_states'.snaps) \ (DOMAIN old_states.snaps) =
                             {Hex(state.job_counter)}
                      /\ old_states'.snaps[Hex(state.job_counter)].job_counter =
                             state.job_counter
                 ELSE /\ ~upd'.rebuilt
                      /\ C17_Built(state') = C17_Built(state)
                      /\ old_states' = old_states
       /\ (upd.pc \in {"getblocktemplate", "notify"} /\ upd'.pc = "set_target"
             /\ ~upd'.rebuilt) => upd'.session \notin all_sessions]_vars

\* a tick whose reply came exactly StaleAfter seconds after the last rebuild,
\* with the height and the commitment of that rebuild, has not rebuilt and
\* is serving the watched session, which subscribed after the rebuild
C17_QuietAtSixty ==
    /\ upd.pc = "set_target"
    /\ ~upd.rebuilt
    /\ upd.session = watched
    /\ state.job_counter >= 1
    /\ state.timestamp + StaleAfter = now

\* every header held, live or in a snapshot, has n bytes, and so has the
\* header at the front of a block built for submission, where the nonce and
\* the mix hash follow it
C19_HeaderSizes(n) ==
    /\ state.header.some => HeaderSize(state.header.v) = n
    /\ \A id \in DOMAIN old_states.snaps :
          old_states.snaps[id].header.some =>
              HeaderSize(old_states.snaps[id].header.v) = n
    /\ task[watched].pc = "submitblock" =>
          HeaderSize(task[watched].block_hex[1]) = n

\* C19 as the spec states it: a header that is present has exactly 76 bytes
C19_HeaderIs76Bytes == C19_HeaderSizes(76)

\* C19: a header that is present, in the live state or in a snapshot of the
\* history queue, has exactly 80 bytes (version 4, previous block hash 32,
\* merkle root 32, timestamp 4, bits 4, height 4); the nonce and the mix
\* hash are appended only when a block is built for submission
C19_HeaderIs80Bytes == C19_HeaderSizes(80)

\* the live state and a snapshot hold a header each, and a block built from
\* one of them is on its way to the node
C19_HeadersHeld ==
    /\ state.header.some
    /\ \E id \in DOMAIN old_states.snaps : old_states.snaps[id].header.some
    /\ task[watched].pc = "submitblock"

(***************************************************************************)
(* SpecRebuild: one miner connects, subscribes and authorizes while the    *)
(* refresher polls a node whose replies are well formed, rejected at once, *)
(* or malformed in their list of transactions.                             *)
(***************************************************************************)
NextRebuild ==
    \/ Connect(watched)
    \/ connection_lost(watched)
    \/ handle_subscribe(watched, MaxSubs)
    \/ handle_authorize(watched, <<"addrA">>)
    \/ Refresher(NodeReplies)
    \/ \E r \in NodeReplies : rebuild_raises(r)
    \/ Broadcast

SpecRebuild == Init /\ [][NextRebuild]_vars

\* C20: wherever the refresher can be suspended, the live template's
\* header, header hash, coinbase transaction, coinbase txid, other
\* transactions and job_counter are those of one header rebuild: the txid is
\* that of the coinbase transaction, the header's merkle root is the one of
\* that txid and the other transactions, the header hash is that of the
\* header, and the header is absent until job_counter has been increased
C20_OneRebuild ==
    /\ state.header.some <=> state.job_counter > 0
    /\ state.coinbase_tx.some <=> state.header.some
    /\ state.header.some =>
          /\ state.coinbase_txid = Some(dsha256(state.coinbase_tx.v.tx))
          /\ state.headerHash = Some(Reverse(dsha256(state.header.v)))
          /\ state.header.v.timestamp = state.timestamp
          /\ IF state.externalTxs = <<>>
             THEN state.header.v.merkle = state.coinbase_txid.v
             ELSE state.header.v.merkle[2][1] = state.coinbase_txid.v

\* nothing has been asked of the node, built, stored or sent
C18_Untouched ==
    /\ upd = UpdInit
    /\ C16_Fields(state) = C16_Fields(TemplateState)
    /\ old_states = [ids |-> <<>>, snaps |-> <<>>]
    /\ all_sessions = {}
    /\ sent = None
    /\ notified = -1
    /\ got = NoneGot

\* C18: while pub_h160 (the spec's miner_h160) is absent a tick of the
\* refresher does nothing: no request goes to the node, the template state,
\* job_counter, the history queue and the session registries stay as they
\* are, and no session is sent a notification
C18_NoMinerNoTick ==
    /\ [](~state.pub_h160.some => C18_Untouched)
    /\ [][(~state.pub_h160.some /\ now' # now) =>
             UNCHANGED <<state, old_states, new_sessions, all_sessions, upd,
                         sent, notified, got>>]_vars

\* nobody has authorized, a session has subscribed and waits in
\* new_sessions, and the refresher has ticked as time went by
C18_TickedWithoutMiner ==
    /\ ~state.pub_h160.some
    /\ watched \in new_sessions
    /\ now > StartTime

\* the coinbase transaction and the other transactions of a state are the
\* ones its header commits to: the txid is that of the coinbase
\* transaction, and the merkle root of the header is that of the txid and
\* the other transactions
C21_Committed(st) ==
    /\ st.coinbase_tx.some
    /\ st.coinbase_txid = Some(dsha256(st.coinbase_tx.v.tx))
    /\ IF st.externalTxs = <<>>
       THEN st.header.v.merkle = st.coinbase_txid.v
       ELSE st.header.v.merkle[2][1] = st.coinbase_txid.v

\* C21: when the job id of a mining.notify a session was sent is held in the
\* history queue, the snapshot under that id has the header hash that was
\* sent with it, and its coinbase transaction and other transactions are
\* the ones whose merkle root is in its header
C21_SnapshotOfJobSent ==
    (sent.some /\ sent.v.method = "mining.notify"
        /\ sent.v.params[1] \in DOMAIN old_states.snaps) =>
       LET old_state == old_states.snaps[sent.v.params[1]]
       IN  /\ old_state.headerHash = sent.v.params[2]
           /\ old_state.header.some
           /\ C21_Committed(old_state)

\* C22: every snapshot the history queue holds has its header, its coinbase
\* transaction and its seed hash, so that build_block can assemble a block
\* from any snapshot handle_submit finds; each is a template that was
\* issued under its id
C22_SnapshotsCanBuild ==
    \A id \in DOMAIN old_states.snaps :
        /\ CanBuild(old_states.snaps[id])
        /\ old_states.snaps[id].seedHash.some

\* C24: the refresher enters its 300 s back-off only when a reply of the
\* node fails or is in error, that is, at the reply: no step taken while it
\* is suspended in a broadcast loop, and no step of a broadcast loop, ends
\* the tick in the back-off
C24_BackoffOnlyAtReply ==
    [][(upd.pc # "backoff" /\ upd'.pc = "backoff") =>
           upd.pc = "getblocktemplate"]_vars

(***************************************************************************)
(* SpecServe: miners connect, subscribe, authorize and disconnect; the     *)
(* node answers every getblocktemplate with a well-formed reply, and the   *)
(* updateState task is always scheduled again: a step of the refresher     *)
(* that stays possible is taken.                                           *)
(***************************************************************************)
NextServe ==
    \/ Connections
    \/ \E s \in Sessions : handle_subscribe(s, MaxSubs)
    \/ \E s \in Sessions : handle_authorize(s, <<"addrA">>)
    \/ stateUpdater_call
    \/ \E r \in NodeReplies : stateUpdater_reply(r)
    \/ backoff_done
    \/ Broadcast

\* a reply of the node can be taken: the request is in flight
ReplyEnabled == upd.pc = "getblocktemplate" /\ state.job_counter < MaxJobs

\* the event loop resumes the updateState task, and the node answers.  The
\* second conjunct is WF_vars(\E r \in NodeReplies : stateUpdater_reply(r))
\* written out, with the action's enabling condition given as ReplyEnabled
FairServe ==
    /\ WF_vars(stateUpdater_call)
    /\ \/ []<>~ReplyEnabled
       \/ []<><<\E r \in NodeReplies : stateUpdater_reply(r)>>_vars
    /\ WF_vars(send_set_target)
    /\ WF_vars(send_notify)
    /\ WF_vars(backoff_done)

SpecServe == Init /\ [][NextServe]_vars /\ FairServe

\* the run has reached the last rebuild or the last back-off explored
C23_Horizon ==
    \/ state.job_counter >= MaxJobs
    \/ upd.pc = "backoff" /\ now + BackoffSeconds > MaxBackoffTime

\* C23: once a miner has authorized, a session that has subscribed (it
\* waits in new_sessions) and stays connected is eventually sent a
\* mining.notify, after its mining.set_target
C23_SubscriberServed ==
    (watched \in new_sessions /\ ~Falsy(state.pub_h160)) ~>
        (notified >= 0 \/ conn[watched] # "open" \/ C23_Horizon)

====
